---- MODULE Spec2Model ----
(***************************************************************************)
(* Model of the multiboot2 tag views of boot_loader_name.rs and rsdp.rs:   *)
(* the bootloader-name tag (builder, name(), dst_size) and the RSDP v1/v2  *)
(* tags (constructor, checksum_is_valid).                                  *)
(*                                                                         *)
(* Memory is a sequence of bytes (0..255); offset k of the tag is element  *)
(* k+1 of the sequence.  Integers wider than TLC's are kept at their full  *)
(* width as little-endian byte sequences ("words"): a u32 is 4 bytes, a    *)
(* usize is usize_bits/8 bytes.                                            *)
(***************************************************************************)
EXTENDS Integers, Sequences, FiniteSets

VARIABLES
    usize_bits,   \* pointer width of the build target: 32 or 64
    mem,          \* the backing byte range, the tag at offset 0 (<<>>: none yet)
    op,           \* the operation applied last
    name_arg,     \* the &str given to BootLoaderNameTag::new (code points)
    rsdp_arg,     \* the fields given to RsdpV1Tag::new or RsdpV2Tag::new
    origin,       \* who wrote the tag: "none", "bootloader" or "builder"
    res,          \* what the last operation returned
    span          \* the byte range the last accessor formed: offset, length

vars == <<usize_bits, mem, op, name_arg, rsdp_arg, origin, res, span>>

----------------------------------------------------------------------------
(* Bounds of the model. *)

\* longest &str given to the builder, in chars
MaxChars == 3
\* longest bootloader-supplied name payload, in bytes
MaxPayload == 3
\* most bytes of the backing range that follow the tag
MaxExtra == 2

----------------------------------------------------------------------------
(* Bytes and words. *)

Byte == 0..255

\* a byte of memory the code has not written (the padding of a struct): it
\* holds whatever the stack or the destination held, any of Byte
Uninit == 256

Min(a, b) == IF a < b THEN a ELSE b

\* n.to_le_bytes() for a number TLC can hold, at w bytes
RECURSIVE to_le_bytes(_, _)
to_le_bytes(n, w) ==
    IF w = 0 THEN <<>> ELSE <<n % 256>> \o to_le_bytes(n \div 256, w - 1)

\* `x as usize` for an unsigned x: zero-extended (or truncated) to the width
as_usize(x, bits) ==
    [i \in 1..(bits \div 8) |-> IF i <= Len(x) THEN x[i] ELSE 0]

\* carry into byte i of a + b
RECURSIVE CarryIn(_, _, _)
CarryIn(a, b, i) ==
    IF i = 1 THEN 0 ELSE (a[i-1] + b[i-1] + CarryIn(a, b, i - 1)) \div 256

\* a.wrapping_add(b) and a.overflowing_add(b).1, for words of one width
wrapping_add(a, b) ==
    [i \in 1..Len(a) |-> (a[i] + b[i] + CarryIn(a, b, i)) % 256]

add_overflows(a, b) == CarryIn(a, b, Len(a) + 1) = 1

\* borrow into byte i of a - b
RECURSIVE BorrowIn(_, _, _)
BorrowIn(a, b, i) ==
    IF i = 1 THEN 0
    ELSE IF a[i-1] - b[i-1] - BorrowIn(a, b, i - 1) < 0 THEN 1 ELSE 0

\* a.wrapping_sub(b), for words of one width
wrapping_sub(a, b) ==
    [i \in 1..Len(a) |-> (a[i] - b[i] - BorrowIn(a, b, i) + 256) % 256]

\* a < b, for words of one width: decided by the highest byte that differs
word_lt(a, b) ==
    \E k \in 1..Len(a) :
        /\ a[k] < b[k]
        /\ \A j \in (k+1)..Len(a) : a[j] = b[j]

word_ge(a, b) == ~word_lt(a, b)

\* a word that an index into the modelled memory can hold (below 2^16)
IsSmall(w) == \A i \in 3..Len(w) : w[i] = 0

\* the number a small word stands for
SmallNat(w) == w[1] + 256 * (IF Len(w) >= 2 THEN w[2] ELSE 0)

----------------------------------------------------------------------------
(* Results: one record shape for every operation. *)

NoRes == [kind |-> "none", flag |-> FALSE, bytes |-> <<>>, n |-> 0]

\* Ok(&str): the bytes of the string
OkStr(s) == [kind |-> "Ok", flag |-> FALSE, bytes |-> s, n |-> 0]

\* Err(Utf8Error) with valid_up_to() = k
ErrUtf8(k) == [kind |-> "Err", flag |-> FALSE, bytes |-> <<>>, n |-> k]

\* a bool
RetBool(b) == [kind |-> "bool", flag |-> b, bytes |-> <<>>, n |-> 0]

\* a usize, as a word
RetUsize(w) == [kind |-> "usize", flag |-> FALSE, bytes |-> w, n |-> 0]

\* a constructed tag (the tag itself is in mem)
RetTag == [kind |-> "tag", flag |-> FALSE, bytes |-> <<>>, n |-> 0]

\* a panic: failed assertion, overflow check or slice index
Panic == [kind |-> "panic", flag |-> FALSE, bytes |-> <<>>, n |-> 0]

\* a read outside the backing range that faults
Fault == [kind |-> "fault", flag |-> FALSE, bytes |-> <<>>, n |-> 0]

\* no slice formed; a slice of `len` (a usize word) bytes at offset `off`
NoSpan == [some |-> FALSE, off |-> 0, len |-> <<>>]

Span(off, len) == [some |-> TRUE, off |-> off, len |-> len]

----------------------------------------------------------------------------
(* Rust strings: a &str is a sequence of chars, stored as their UTF-8. *)

\* char::encode_utf8
encode_utf8(c) ==
    IF c < 128 THEN <<c>>
    ELSE IF c < 2048 THEN <<192 + (c \div 64), 128 + (c % 64)>>
    ELSE IF c < 65536 THEN
        <<224 + (c \div 4096), 128 + ((c \div 64) % 64), 128 + (c % 64)>>
    ELSE <<240 + (c \div 262144), 128 + ((c \div 4096) % 64),
           128 + ((c \div 64) % 64), 128 + (c % 64)>>

\* str::bytes(): the UTF-8 bytes of the chars, in order
RECURSIVE str_bytes(_)
str_bytes(s) ==
    IF s = <<>> THEN <<>> ELSE encode_utf8(Head(s)) \o str_bytes(Tail(s))

\* core::str::validations::utf8_char_width
utf8_char_width(b) ==
    IF b < 128 THEN 1
    ELSE IF b >= 194 /\ b <= 223 THEN 2
    ELSE IF b >= 224 /\ b <= 239 THEN 3
    ELSE IF b >= 240 /\ b <= 244 THEN 4
    ELSE 0

\* a continuation byte, 0x80..=0xBF
IsCont(b) == b >= 128 /\ b <= 191

\* the range the byte after leading byte `first` must lie in
SecondOk(first, b) ==
    CASE first = 224 -> b >= 160 /\ b <= 191
      [] first = 237 -> b >= 128 /\ b <= 159
      [] first = 240 -> b >= 144 /\ b <= 191
      [] first = 244 -> b >= 128 /\ b <= 143
      [] OTHER -> IsCont(b)

\* core::str::validations::run_utf8_validation from `index` on:
\* -1 when the rest is valid, else valid_up_to, the start of the bad sequence
RECURSIVE run_utf8_validation(_, _)
run_utf8_validation(v, index) ==
    IF index >= Len(v) THEN -1
    ELSE LET first == v[index + 1]
             w == utf8_char_width(first)
         IN  IF w = 0 THEN index
             ELSE IF index + w > Len(v) THEN
                 \* next() runs off the end, or a byte before the end is bad
                 index
             ELSE IF w >= 2 /\ ~SecondOk(first, v[index + 2]) THEN index
             ELSE IF w >= 3 /\ ~IsCont(v[index + 3]) THEN index
             ELSE IF w >= 4 /\ ~IsCont(v[index + 4]) THEN index
             ELSE run_utf8_validation(v, index + w)

\* core::str::from_utf8
from_utf8(v) ==
    LET e == run_utf8_validation(v, 0)
    IN  IF e = -1 THEN OkStr(v) ELSE ErrUtf8(e)

----------------------------------------------------------------------------
(* The tag header and the bootloader-name tag. *)

\* size_of::<TagTypeId>() and size_of::<u32>()
SizeOfTagTypeId == 4

SizeOfU32 == 4

METADATA_SIZE == SizeOfTagTypeId + SizeOfU32

\* TagType::BootLoaderName, AcpiV1, AcpiV2 as the u32 of the protocol
BootLoaderName == 2

AcpiV1 == 14

AcpiV2 == 15

\* the `typ` and `size` fields of a tag in memory
tag_typ(m) == SubSeq(m, 1, SizeOfTagTypeId)

tag_size(m) == SubSeq(m, SizeOfTagTypeId + 1, METADATA_SIZE)

\* <BootLoaderNameTag as TagTrait>::dst_size
dst_size_unchecked(size, bits) ==
    RetUsize(wrapping_sub(as_usize(size, bits),
                          to_le_bytes(METADATA_SIZE, bits \div 8)))

dst_size(size, bits) ==
    IF ~word_ge(as_usize(size, bits), to_le_bytes(METADATA_SIZE, bits \div 8))
    THEN Panic
    ELSE RetUsize(wrapping_sub(as_usize(size, bits),
                               to_le_bytes(METADATA_SIZE, bits \div 8)))

\* a backing range that holds the whole tag its header declares
BackingHoldsTag(m) ==
    /\ Len(m) >= METADATA_SIZE
    /\ IsSmall(tag_size(m))
    /\ SmallNat(tag_size(m)) <= Len(m)

\* the `name: [u8]` field of the view: dst_size bytes after the header
NameFieldOffByOne(m, bits) ==
    SubSeq(m, METADATA_SIZE + 2,
           METADATA_SIZE + SmallNat(dst_size(tag_size(m), bits).bytes))

NameFieldToEnd(m, bits) == SubSeq(m, METADATA_SIZE + 1, Len(m))

NameField(m, bits) ==
    SubSeq(m, METADATA_SIZE + 1,
           METADATA_SIZE + SmallNat(dst_size(tag_size(m), bits).bytes))

\* Tag::get_dst_str_slice: the text before the first NUL, or all of it
get_dst_str_slice(bytes) ==
    LET nuls == {i \in 1..Len(bytes) : bytes[i] = 0}
        length == IF nuls = {} THEN Len(bytes)
                  ELSE (CHOOSE i \in nuls : \A j \in nuls : i <= j) - 1
    IN  from_utf8(SubSeq(bytes, 1, length))

\* BootLoaderNameTag::name
name(m, bits) == get_dst_str_slice(NameField(m, bits))

\* BoxedDst::<T>::new(content): header (T::ID, size) followed by the content
BoxedDst_new(id, content) ==
    to_le_bytes(id, SizeOfTagTypeId)
        \o to_le_bytes(METADATA_SIZE + Len(content), SizeOfU32)
        \o content

\* the content BootLoaderNameTag::new hands to BoxedDst::new
NameContentCharsAsU8(s) ==
    LET bytes == [i \in 1..Len(s) |-> s[i] % 256]
    IN  IF bytes = <<>> \/ bytes[Len(bytes)] # 0 THEN Append(bytes, 0) ELSE bytes

NameContentAlwaysPush(s) == Append(str_bytes(s), 0)

NameContent(s) ==
    LET bytes == str_bytes(s)
    IN  IF bytes = <<>> \/ bytes[Len(bytes)] # 0 THEN Append(bytes, 0) ELSE bytes

\* BootLoaderNameTag::new
BootLoaderNameTag_new(s) == BoxedDst_new(BootLoaderName, NameContent(s))

----------------------------------------------------------------------------
(* #[repr(C)] layout: a field is [name, size, align]. *)

round_up(n, a) == ((n + a - 1) \div a) * a

\* offset of field i: the end of field i-1, raised to field i's alignment
RECURSIVE field_offset(_, _)
field_offset(fields, i) ==
    IF i = 1 THEN 0
    ELSE round_up(field_offset(fields, i - 1) + fields[i-1].size,
                  fields[i].align)

offset_of(fields, fname) ==
    field_offset(fields, CHOOSE i \in 1..Len(fields) : fields[i].name = fname)

\* size_of: the end of the last field, raised to the struct's alignment
size_of(fields, align) ==
    round_up(field_offset(fields, Len(fields)) + fields[Len(fields)].size,
             align)

\* the struct in memory: each field's bytes at its offset; the padding is
\* not written
struct_bytes(fields, align, value) ==
    [k \in 1..size_of(fields, align) |->
        LET at == {i \in 1..Len(fields) :
                      /\ field_offset(fields, i) < k
                      /\ k <= field_offset(fields, i) + fields[i].size}
        IN  IF at = {} THEN Uninit
            ELSE LET i == CHOOSE j \in at : TRUE
                 IN  value[fields[i].name][k - field_offset(fields, i)]]

\* the bytes of field `fname` of the struct at the start of m
field_bytes(m, fields, fname) ==
    LET i == CHOOSE j \in 1..Len(fields) : fields[j].name = fname
    IN  SubSeq(m, field_offset(fields, i) + 1,
               field_offset(fields, i) + fields[i].size)

----------------------------------------------------------------------------
(* The RSDP tags. *)

RSDPV1_LENGTH == 20

\* align(8) of #[repr(C, align(8))]
RsdpAlign == 8

RsdpV1Tag ==
    << [name |-> "header",       size |-> 8, align |-> 4],
       [name |-> "signature",    size |-> 8, align |-> 1],
       [name |-> "checksum",     size |-> 1, align |-> 1],
       [name |-> "oem_id",       size |-> 6, align |-> 1],
       [name |-> "revision",     size |-> 1, align |-> 1],
       [name |-> "rsdt_address", size |-> 4, align |-> 4] >>

RsdpV2Tag ==
    RsdpV1Tag \o
    << [name |-> "length",       size |-> 4, align |-> 4],
       [name |-> "xsdt_address", size |-> 8, align |-> 8],
       [name |-> "ext_checksum", size |-> 1, align |-> 1],
       [name |-> "_reserved",    size |-> 3, align |-> 1] >>

\* TagHeader::new(typ, size)
TagHeader_new(typ, size) ==
    to_le_bytes(typ, SizeOfTagTypeId) \o to_le_bytes(size, SizeOfU32)

\* RsdpV1Tag::new
RsdpV1Tag_new(a) ==
    struct_bytes(RsdpV1Tag, RsdpAlign,
        [header       |-> TagHeader_new(AcpiV1, size_of(RsdpV1Tag, RsdpAlign)),
         signature    |-> a.signature,
         checksum     |-> <<a.checksum>>,
         oem_id       |-> a.oem_id,
         revision     |-> <<a.revision>>,
         rsdt_address |-> a.rsdt_address])

\* RsdpV2Tag::new
RsdpV2Tag_new(a) ==
    struct_bytes(RsdpV2Tag, RsdpAlign,
        [header       |-> TagHeader_new(AcpiV2, size_of(RsdpV2Tag, RsdpAlign)),
         signature    |-> a.signature,
         checksum     |-> <<a.checksum>>,
         oem_id       |-> a.oem_id,
         revision     |-> <<a.revision>>,
         rsdt_address |-> a.rsdt_address,
         length       |-> a.length,
         xsdt_address |-> a.xsdt_address,
         ext_checksum |-> <<a.ext_checksum>>,
         _reserved    |-> <<0, 0, 0>>])

\* bytes[skip..].iter().fold(0u8, |acc, val| acc.wrapping_add(*val)), from
\* element i on: the values the accumulator can end at, from those in accs.
\* A byte the code has not written adds any of Byte, and so leaves the
\* accumulator at any of Byte.
RECURSIVE fold_wrapping_add(_, _, _)
fold_wrapping_add(bytes, i, accs) ==
    IF i > Len(bytes) THEN accs
    ELSE fold_wrapping_add(bytes, i + 1,
             IF bytes[i] = Uninit THEN Byte
             ELSE {(acc + bytes[i]) % 256 : acc \in accs})

\* what a read outside the backing range can do: either answer, or a fault
OutsideRange == {RetBool(TRUE), RetBool(FALSE), Fault}

\* RsdpV1Tag::checksum_is_valid: the outcomes the build can produce, each
\* with the slice formed.  The slice is 28 bytes from the tag's start,
\* whatever header.size and the backing range are; where it leaves the
\* backing range the read is undefined behaviour.
RsdpV1Tag_checksum_whole_slice(m, bits) ==
    IF Len(m) < RSDPV1_LENGTH + 8
    THEN {[res  |-> r,
           span |-> Span(0, to_le_bytes(RSDPV1_LENGTH + 8, bits \div 8))] :
             r \in OutsideRange}
    ELSE {[res  |-> RetBool(sum = 0),
           span |-> Span(0, to_le_bytes(RSDPV1_LENGTH + 8, bits \div 8))] :
          sum \in fold_wrapping_add(SubSeq(m, 1, RSDPV1_LENGTH + 8), 1, {0})}

RsdpV1Tag_checksum_is_valid(m, bits) ==
    IF Len(m) < RSDPV1_LENGTH + 8
    THEN {[res  |-> r,
           span |-> Span(0, to_le_bytes(RSDPV1_LENGTH + 8, bits \div 8))] :
             r \in OutsideRange}
    ELSE {[res  |-> RetBool(sum = 0),
           span |-> Span(0, to_le_bytes(RSDPV1_LENGTH + 8, bits \div 8))] :
          sum \in fold_wrapping_add(SubSeq(m, 1, RSDPV1_LENGTH + 8), 9, {0})}

\* a usize above isize::MAX: its top bit is set
above_isize_max(w) == w[Len(w)] >= 128

\* RsdpV2Tag::checksum_is_valid: the outcomes the build can produce, each
\* with the slice formed.  debug: a build with overflow checks and debug
\* assertions (`+` panics on overflow, slice::from_raw_parts panics on a
\* slice above isize::MAX); without them `+` wraps and such a slice is
\* undefined behaviour.  A length field outside the backing range is read
\* as whatever is there; a slice that leaves the backing range is undefined
\* behaviour: either answer, or a fault.
RsdpV2Tag_checksum_is_valid(m, bits, debug) ==
    IF Len(m) < offset_of(RsdpV2Tag, "length") + 4
    THEN {[res |-> r, span |-> Span(offset_of(RsdpV2Tag, "length"),
                                    to_le_bytes(4, bits \div 8))] :
             r \in OutsideRange \cup (IF bits = 32 THEN {Panic} ELSE {})}
    ELSE
    LET length == as_usize(field_bytes(m, RsdpV2Tag, "length"), bits)
        eight  == to_le_bytes(8, bits \div 8)
        len    == wrapping_add(length, eight)
    IN  IF add_overflows(length, eight) /\ debug
        THEN {[res |-> Panic, span |-> NoSpan]}
        ELSE IF above_isize_max(len) /\ debug
        THEN {[res |-> Panic, span |-> NoSpan]}
        ELSE IF word_lt(len, eight)
        THEN {[res |-> Panic, span |-> Span(0, len)]}
        ELSE IF ~(IsSmall(len) /\ SmallNat(len) <= Len(m))
        THEN {[res |-> r, span |-> Span(0, len)] : r \in OutsideRange}
        ELSE {[res  |-> RetBool(sum = 0),
               span |-> Span(0, len)] :
              sum \in fold_wrapping_add(SubSeq(m, 1, SmallNat(len)), 9, {0})}

----------------------------------------------------------------------------
(* The inputs: what a producer builds and what a bootloader hands over. *)

\* sequences over S of length at most n
SeqsUpTo(S, n) == UNION {[1..k -> S] : k \in 0..n}

\* NUL, 'h', U+00E9 (2 bytes) and U+20AC (3 bytes)
Chars == {0, 104, 233, 8364}

\* "hello", the MSG of the tests
Hello == <<104, 101, 108, 108, 111>>

Strings == SeqsUpTo(Chars, MaxChars) \cup {Hello}

\* NUL, 'h', a continuation byte, leading bytes of 2 and 3 bytes (0xED with
\* its narrowed second byte), and a byte no UTF-8 holds
PayloadBytes == {0, 104, 169, 195, 226, 237, 255}

Payloads == SeqsUpTo(PayloadBytes, MaxPayload) \cup {Append(Hello, 0)}

\* what follows the tag in the backing range: padding, the next tag
Extras == {[i \in 1..k |-> f] : k \in 0..MaxExtra, f \in {0, 169}}

\* a bootloader-name tag as the outer traversal hands it over
NameTags ==
    {to_le_bytes(BootLoaderName, 4) \o to_le_bytes(METADATA_SIZE + Len(p), 4)
         \o p \o x : p \in Payloads, x \in Extras}

\* bare headers, whatever their size field says, for dst_size
SizeWords ==
    {<<b1, b2, b3, b4>> : b1 \in {0, 7, 8, 9, 255}, b2 \in {0, 1},
                          b3 \in {0, 255}, b4 \in {0, 128, 255}}

BareHeaders == {to_le_bytes(BootLoaderName, 4) \o w : w \in SizeWords}

\* b"RSD PTR "
RSD_PTR == <<82, 83, 68, 32, 80, 84, 82, 32>>

\* 225 completes the checksum of RSD_PTR alone; 220 that of a v2 table of
\* length 36 on top of it
ChecksumBytes == {0, 1, 220, 225, 255}

RsdpArgs ==
    {[signature |-> RSD_PTR, checksum |-> c, oem_id |-> <<o, 0, 0, 0, 0, o>>,
      revision |-> r, rsdt_address |-> <<a, 0, 14, 0>>] :
        c \in ChecksumBytes, o \in {0, 66}, r \in {2}, a \in {0, 124}}

\* the `length` fields a bootloader may write: 0, 20, 36 (the true size),
\* 37 and 38 and 40 (past the tag), 0x80000000, 0xFFFFFFF8, 0xFFFFFFFF
Lengths ==
    {<<0, 0, 0, 0>>, <<20, 0, 0, 0>>, <<36, 0, 0, 0>>, <<37, 0, 0, 0>>,
     <<38, 0, 0, 0>>, <<40, 0, 0, 0>>, <<0, 0, 0, 128>>,
     <<248, 255, 255, 255>>, <<255, 255, 255, 255>>}

\* arguments of RsdpV2Tag::new
RsdpV2Args ==
    {[signature |-> RSD_PTR, checksum |-> c, oem_id |-> <<0, 0, 0, 0, 0, 0>>,
      revision |-> 2, rsdt_address |-> <<0, 0, 14, 0>>, length |-> l,
      xsdt_address |-> <<0, 0, 0, 0, 0, 0, 0, 0>>, ext_checksum |-> e] :
        c \in {0, 225}, e \in {0, 220}, l \in Lengths}

NoRsdpArgs ==
    [signature |-> <<>>, checksum |-> 0, oem_id |-> <<>>, revision |-> 0,
     rsdt_address |-> <<>>]

\* the ACPI 1.0 RSDP, 20 bytes
RsdpV1Payload(c, o) == RSD_PTR \o <<c>> \o <<o, 0, 0, 0, 0, 0>> \o <<0>>
                           \o <<0, 0, 0, 0>>

\* RSDP v1 tags of a bootloader: of size 8 + 20, and cut short at size 27
RsdpV1Tags ==
    {TagHeader_new(AcpiV1, n) \o SubSeq(RsdpV1Payload(c, o), 1, n - 8) \o x :
        n \in {27, 28}, c \in ChecksumBytes, o \in ChecksumBytes, x \in Extras}

\* RSDP v2 tags of a bootloader: of size 8 + 36, and cut short at size 28
RsdpV2Tags ==
    {TagHeader_new(AcpiV2, 28) \o RsdpV1Payload(c, 0) \o x :
        c \in ChecksumBytes, x \in Extras} \cup
    {TagHeader_new(AcpiV2, 44) \o RsdpV1Payload(c, 0) \o l
         \o <<0, 0, 0, 0, 0, 0, 0, 0>> \o <<e>> \o <<0, 0, 0>> \o x :
        c \in ChecksumBytes, e \in ChecksumBytes, l \in Lengths, x \in Extras}

BootloaderTags == NameTags \cup BareHeaders \cup RsdpV1Tags \cup RsdpV2Tags

----------------------------------------------------------------------------
(* The state machine. *)

Init ==
    /\ usize_bits \in {32, 64}
    /\ \/ mem = <<>> /\ origin = "none"
       \/ mem \in BootloaderTags /\ origin = "bootloader"
    /\ op = "none"
    /\ name_arg = <<>>
    /\ rsdp_arg = NoRsdpArgs
    /\ res = NoRes
    /\ span = NoSpan

\* the tag in memory is of this type
IsTag(typ) == Len(mem) >= METADATA_SIZE /\ tag_typ(mem) = to_le_bytes(typ, 4)

\* BootLoaderNameTag::new(s)
New ==
    /\ mem = <<>>
    /\ \E s \in Strings :
        /\ name_arg' = s
        /\ mem' = BootLoaderNameTag_new(s)
    /\ origin' = "builder"
    /\ op' = "new"
    /\ res' = RetTag
    /\ span' = NoSpan
    /\ UNCHANGED <<usize_bits, rsdp_arg>>

\* <BootLoaderNameTag as TagTrait>::dst_size(base_tag)
DstSize ==
    /\ IsTag(BootLoaderName)
    /\ op' = "dst_size"
    /\ res' = dst_size(tag_size(mem), usize_bits)
    /\ span' = NoSpan
    /\ UNCHANGED <<usize_bits, mem, name_arg, rsdp_arg, origin>>

\* tag.name(), on a view that cast_tag could form over a backing range that
\* holds the tag
Name ==
    /\ IsTag(BootLoaderName)
    /\ BackingHoldsTag(mem)
    /\ dst_size(tag_size(mem), usize_bits).kind = "usize"
    /\ op' = "name"
    /\ res' = name(mem, usize_bits)
    /\ span' = Span(METADATA_SIZE, dst_size(tag_size(mem), usize_bits).bytes)
    /\ UNCHANGED <<usize_bits, mem, name_arg, rsdp_arg, origin>>

\* RsdpV1Tag::new(signature, checksum, oem_id, revision, rsdt_address)
V1New ==
    /\ mem = <<>>
    /\ \E a \in RsdpArgs :
        /\ rsdp_arg' = a
        /\ mem' = RsdpV1Tag_new(a)
    /\ origin' = "builder"
    /\ op' = "v1_new"
    /\ res' = RetTag
    /\ span' = NoSpan
    /\ UNCHANGED <<usize_bits, name_arg>>

\* RsdpV2Tag::new(signature, checksum, oem_id, revision, rsdt_address,
\* length, xsdt_address, ext_checksum)
V2New ==
    /\ mem = <<>>
    /\ \E a \in RsdpV2Args :
        /\ rsdp_arg' = a
        /\ mem' = RsdpV2Tag_new(a)
    /\ origin' = "builder"
    /\ op' = "v2_new"
    /\ res' = RetTag
    /\ span' = NoSpan
    /\ UNCHANGED <<usize_bits, name_arg>>

\* RsdpV1Tag::checksum_is_valid
V1ChecksumIsValid ==
    /\ IsTag(AcpiV1)
    /\ BackingHoldsTag(mem)
    /\ op' = "v1_checksum_is_valid"
    /\ \E o \in RsdpV1Tag_checksum_is_valid(mem, usize_bits) :
            /\ res' = o.res
            /\ span' = o.span
    /\ UNCHANGED <<usize_bits, mem, name_arg, rsdp_arg, origin>>

\* RsdpV2Tag::checksum_is_valid, in a debug or a release build
V2ChecksumIsValid ==
    /\ IsTag(AcpiV2)
    /\ BackingHoldsTag(mem)
    /\ op' = "v2_checksum_is_valid"
    /\ \E debug \in BOOLEAN :
       \E o \in RsdpV2Tag_checksum_is_valid(mem, usize_bits, debug) :
            /\ res' = o.res
            /\ span' = o.span
    /\ UNCHANGED <<usize_bits, mem, name_arg, rsdp_arg, origin>>

Next ==
    \/ New
    \/ DstSize
    \/ Name
    \/ V1New
    \/ V2New
    \/ V1ChecksumIsValid
    \/ V2ChecksumIsValid

Spec == Init /\ [][Next]_vars

----------------------------------------------------------------------------
(* What the claims are stated in: UTF-8 by its definition, sums as numbers. *)

\* the scalar value the bit layout of a chunk of 1 to 4 bytes holds
ChunkValue(c) ==
    CASE Len(c) = 1 -> c[1]
      [] Len(c) = 2 -> (c[1] % 32) * 64 + (c[2] % 64)
      [] Len(c) = 3 -> (c[1] % 16) * 4096 + (c[2] % 64) * 64 + (c[3] % 64)
      [] OTHER -> (c[1] % 8) * 262144 + (c[2] % 64) * 4096
                      + (c[3] % 64) * 64 + (c[4] % 64)

\* a Unicode scalar value: up to U+10FFFF, no surrogate
IsScalar(v) == v >= 0 /\ v <= 1114111 /\ ~(v >= 55296 /\ v <= 57343)

\* the chunk is the UTF-8 encoding of a scalar value
EncodesScalar(c) == IsScalar(ChunkValue(c)) /\ encode_utf8(ChunkValue(c)) = c

\* the bytes are a concatenation of encodings of scalar values
RECURSIVE WellFormed(_)
WellFormed(v) ==
    \/ v = <<>>
    \/ \E k \in 1..Min(4, Len(v)) :
        /\ EncodesScalar(SubSeq(v, 1, k))
        /\ WellFormed(SubSeq(v, k + 1, Len(v)))

\* the longest prefix that is well-formed
LongestValidPrefix(v) ==
    CHOOSE k \in 0..Len(v) :
        /\ WellFormed(SubSeq(v, 1, k))
        /\ \A j \in (k+1)..Len(v) : ~WellFormed(SubSeq(v, 1, j))

\* the sum of elements lo..hi of m, as a number
RECURSIVE SumOf(_, _, _)
SumOf(m, lo, hi) == IF lo > hi THEN 0 ELSE m[lo] + SumOf(m, lo + 1, hi)

\* header.size of the tag in memory, when it is a number the model holds
HeaderSize == SmallNat(tag_size(mem))

\* the payload of the name tag in memory: offsets [8, header.size)
Payload == SubSeq(mem, 9, HeaderSize)

\* the payload up to its first NUL, or all of it when it has none
Text ==
    IF \E i \in 1..Len(Payload) : Payload[i] = 0
    THEN SubSeq(Payload, 1,
                (CHOOSE i \in 1..Len(Payload) :
                    /\ Payload[i] = 0
                    /\ \A j \in 1..(i-1) : Payload[j] # 0) - 1)
    ELSE Payload

\* the `length` field of the RSDP v2 tag in memory: offsets [28, 32)
LengthField == SubSeq(mem, 29, 32)

\* the bytes at offsets [8, n) of the memory have all been written
Written(n) == \A i \in 9..n : mem[i] # Uninit

----------------------------------------------------------------------------
(* The claims. *)

\* C1: round trip.  For a text s without NUL (the empty one too), name() of
\* the tag BootLoaderNameTag::new(s) built is Ok(s).
C1_RoundTrip ==
    (op = "name" /\ origin = "builder" /\ \A i \in 1..Len(name_arg) : name_arg[i] # 0)
        => res = OkStr(str_bytes(name_arg))

\* name() has decoded a built tag whose text holds chars of 1, 2 and 3 bytes
C1_Witness ==
    /\ op = "name"
    /\ origin = "builder"
    /\ name_arg = <<104, 233, 8364>>
    /\ res.kind = "Ok"

\* C2: the tag BootLoaderNameTag::new(s) builds is type 2 and the size as
\* little-endian u32, then the bytes of s, then one NUL only if s does not
\* end in NUL; size is 8 + len(s) if s ends in NUL, else 8 + len(s) + 1.
C2_BuilderTerminator ==
    (origin = "builder" /\ IsTag(BootLoaderName)) =>
        LET s == str_bytes(name_arg)
            ends == Len(s) > 0 /\ s[Len(s)] = 0
            size == IF ends THEN 8 + Len(s) ELSE 8 + Len(s) + 1
        IN  /\ Len(mem) = size
            /\ SubSeq(mem, 1, 4) = <<2, 0, 0, 0>>
            /\ SubSeq(mem, 5, 8) = <<size % 256, size \div 256, 0, 0>>
            /\ SubSeq(mem, 9, 8 + Len(s)) = s
            /\ mem[size] = 0

\* a tag has been built from a text that already ends in NUL
C2_Witness ==
    /\ op = "new"
    /\ name_arg = <<104, 0>>
    /\ Len(mem) = 10

\* C3: name() returns the payload bytes before the first NUL when there is
\* one (what follows it is ignored) and the whole payload when there is
\* none, provided those bytes are valid UTF-8.
C3_NameDecodes ==
    (op = "name" /\ WellFormed(Text)) => res = OkStr(Text)

\* name() has decoded a payload with bytes after its first NUL that are not
\* valid UTF-8
C3_Witness ==
    /\ op = "name"
    /\ origin = "bootloader"
    /\ Payload = <<104, 0, 255>>
    /\ res = OkStr(<<104>>)

\* C4: name() returns Err exactly when the payload before its first NUL
\* (all of it when it has none) is not valid UTF-8, with the offset of the
\* first invalid sequence; it returns Ok or Err and never panics.
C4_Utf8Rejection ==
    op = "name" =>
        /\ res.kind \in {"Ok", "Err"}
        /\ (res.kind = "Err") = ~WellFormed(Text)
        /\ res.kind = "Err" => res.n = LongestValidPrefix(Text)

\* name() has rejected a payload whose invalid byte is not the first
C4_Witness ==
    /\ op = "name"
    /\ res = ErrUtf8(2)
    /\ Payload = <<195, 169, 255>>

\* C5: for a tag that holds its 20 ACPI bytes (offsets [8, 28) lie in the
\* backing range), RsdpV1Tag::checksum_is_valid() is true exactly when
\* those bytes sum to 0 mod 256, whatever the 8 header bytes are; and a
\* valid tag with any one of those bytes changed is invalid.
C5_V1Checksum ==
    (op = "v1_checksum_is_valid" /\ Len(mem) >= 28) =>
        /\ res = RetBool(SumOf(mem, 9, 28) % 256 = 0)
        /\ \A h \in {TagHeader_new(AcpiV1, 28), TagHeader_new(AcpiV1, 32),
                     <<255, 255, 255, 255, 255, 255, 255, 255>>} :
              \A o \in RsdpV1Tag_checksum_is_valid(
                            h \o SubSeq(mem, 9, Len(mem)), usize_bits) :
                  o.res = res
        /\ res.flag =>
              \A i \in 9..28 : \A b \in Byte \ {mem[i]} :
                  \A o \in RsdpV1Tag_checksum_is_valid(
                                [mem EXCEPT ![i] = b], usize_bits) :
                      ~o.res.flag

\* a tag whose checksum is valid has been validated
C5_Witness ==
    /\ op = "v1_checksum_is_valid"
    /\ Len(mem) >= 28
    /\ res = RetBool(TRUE)
    /\ SubSeq(mem, 9, 16) = RSD_PTR

\* C8: dst_size returns header.size - 8 for a header with size >= 8, and
\* panics for one with size < 8: no wrapped length is returned.
C8_DstSize ==
    op = "dst_size" =>
        LET size  == as_usize(tag_size(mem), usize_bits)
            eight == to_le_bytes(8, usize_bits \div 8)
        IN  IF size[1] >= 8 \/ \E i \in 2..Len(size) : size[i] # 0
            THEN /\ res.kind = "usize"
                 /\ ~add_overflows(res.bytes, eight)
                 /\ wrapping_add(res.bytes, eight) = size
            ELSE res = Panic

\* dst_size has panicked on a header whose size is 7
C8_Witness ==
    /\ op = "dst_size"
    /\ tag_size(mem) = <<7, 0, 0, 0>>
    /\ res = Panic

\* C6: RsdpV2Tag::checksum_is_valid() is true exactly when the bytes at
\* offsets [8, 8 + length) sum to 0 mod 256, for every tag: it answers, and
\* where the backing range holds those bytes, all of them written, its
\* answer is that of the sum.
C6_V2Checksum ==
    op = "v2_checksum_is_valid" =>
        /\ res.kind = "bool"
        /\ (/\ Len(mem) >= 32
            /\ IsSmall(LengthField)
            /\ 8 + SmallNat(LengthField) <= Len(mem)
            /\ Written(8 + SmallNat(LengthField))) =>
              res.flag = (SumOf(mem, 9, 8 + SmallNat(LengthField)) % 256 = 0)

\* C6, where `length` stays inside the tag and off its padding: the answer
\* is that of the sum
C6_V2ChecksumInsideTag ==
    (/\ op = "v2_checksum_is_valid"
     /\ Len(mem) >= 32
     /\ IsSmall(LengthField)
     /\ 8 + SmallNat(LengthField) <= HeaderSize
     /\ Written(8 + SmallNat(LengthField))) =>
        res = RetBool(SumOf(mem, 9, 8 + SmallNat(LengthField)) % 256 = 0)

\* C7: every accessor reads only offsets in [0, header.size) of the tag,
\* whatever the fields of the tag hold.
C7_ReadBounds ==
    (/\ op \in {"name", "v1_checksum_is_valid", "v2_checksum_is_valid"}
     /\ span.some) =>
        /\ IsSmall(span.len)
        /\ span.off + SmallNat(span.len) <= HeaderSize

\* C9: the tag RsdpV1Tag::new builds has header.size 28 (8 + 20), the type
\* of the ACPI v1 tag, and the five fields as given.
C9_V1NewSize ==
    op = "v1_new" =>
        /\ tag_size(mem) = <<28, 0, 0, 0>>
        /\ tag_typ(mem) = <<14, 0, 0, 0>>
        /\ SubSeq(mem, 9, 16) = rsdp_arg.signature
        /\ mem[17] = rsdp_arg.checksum
        /\ SubSeq(mem, 18, 23) = rsdp_arg.oem_id
        /\ mem[24] = rsdp_arg.revision
        /\ SubSeq(mem, 25, 28) = rsdp_arg.rsdt_address

\* C9, but for the size: the type and the five fields are as given
C9_V1NewFields ==
    op = "v1_new" =>
        /\ tag_typ(mem) = <<14, 0, 0, 0>>
        /\ SubSeq(mem, 9, 16) = rsdp_arg.signature
        /\ mem[17] = rsdp_arg.checksum
        /\ SubSeq(mem, 18, 23) = rsdp_arg.oem_id
        /\ mem[24] = rsdp_arg.revision
        /\ SubSeq(mem, 25, 28) = rsdp_arg.rsdt_address

\* C10: in RsdpV2Tag::checksum_is_valid of a tag that holds its length
\* field, length + 8 does not wrap for any u32 length at either usize
\* width: the slice has at least 8 bytes, the index bytes[8..] does not
\* panic, length bytes are summed, and the answer is true when length is 0.
C10_NoWrap ==
    (op = "v2_checksum_is_valid" /\ Len(mem) >= 32) =>
        LET eight == to_le_bytes(8, usize_bits \div 8)
        IN  /\ res.kind # "panic"
            /\ span.some
            /\ word_ge(span.len, eight)
            /\ wrapping_sub(span.len, eight) = as_usize(LengthField, usize_bits)
            /\ LengthField = <<0, 0, 0, 0>> => res = RetBool(TRUE)

\* C10, at a usize of 64 bits
C10_NoWrap64 ==
    usize_bits = 64 => C10_NoWrap

====
